---- MODULE Spec2Model ----
(***************************************************************************)
(* Model of boundingBoxesTool (src/unnamed/part_000): the bounded retry    *)
(* loop around the "Bounding Boxes" query, the quadrant subdivision, the   *)
(* fan-out of nearbySearch requests joined by Promise.all, and the         *)
(* flattening of the per-quadrant place ids.                               *)
(*                                                                         *)
(* Numbers: coordinates are fixed-point, in twentieths of a degree.  The   *)
(* store holds multiples of a tenth of a degree (even values), so that the *)
(* midpoint (a + b) / 2 of two stored values is exact.  A null bound is    *)
(* recorded in the row's "missing" set; its numeric field holds 0, the     *)
(* value null takes in JavaScript arithmetic.                              *)
(*                                                                         *)
(* Host: the tool uses the globals google.maps and document (line 89).     *)
(* The model takes them as provided by the host, like the store client.    *)
(*                                                                         *)
(* Console: the lines the tool writes are a history the tool never reads.  *)
(* They are recorded when a console is attached (SpecLog) and dropped      *)
(* otherwise, so that Spec is SpecLog with the console hidden.             *)
(*                                                                         *)
(* runAgent (src/app/ai_sdk/agent/action.ts) is modelled on its own        *)
(* variables: the detached task, the events of the agent executor and the  *)
(* streamable value.                                                       *)
(***************************************************************************)
EXTENDS Integers, Sequences, FiniteSets, Bags, TLC

VARIABLES pc, state, attempt, boundingBoxes, queries, failedAttempts,
          lastAnswer, thrown, logged, dividedBoundingBoxes, requests,
          responses, searchResults, result, loopExit, console,
          apc, produced, updates, doneCalls

toolVars == <<pc, state, attempt, boundingBoxes, queries, failedAttempts,
              lastAnswer, thrown, logged, dividedBoundingBoxes, requests,
              responses, searchResults, result, loopExit, console>>

agentVars == <<apc, produced, updates, doneCalls>>

vars == <<toolVars, agentVars>>

----------------------------------------------------------------------------
(* Bounds of the model *)

\* longest result list a places search returns
MaxResults == 2
\* stored coordinates range over -MaxCoord..MaxCoord tenths of a degree
MaxCoord == 2
\* most events the agent executor yields in one run
MaxEvents == 3

----------------------------------------------------------------------------
(* Values *)

maxRetries == 3

BoundNames == {"y_min", "y_max", "x_min", "x_max"}

NullLabel == "<null>"

\* a nullable array: null, or the array rows
NullData == [isNull |-> TRUE, rows |-> <<>>]
Arr(s) == [isNull |-> FALSE, rows |-> s]

Range(s) == {s[i] : i \in 1..Len(s)}

RECURSIVE SeqsUpTo(_, _)
SeqsUpTo(S, n) ==
    IF n = 0 THEN {<<>>}
    ELSE LET shorter == SeqsUpTo(S, n - 1)
         IN  shorter \cup {Append(s, x) : s \in {t \in shorter : Len(t) = n - 1}, x \in S}

----------------------------------------------------------------------------
(* The keyed store: table "Bounding Boxes" *)

MkRow(name, county, ymin, ymax, xmin, xmax, missing) ==
    [STATE_NAME |-> name, COUNTY_NAME |-> county,
     y_min |-> IF "y_min" \in missing THEN 0 ELSE ymin,
     y_max |-> IF "y_max" \in missing THEN 0 ELSE ymax,
     x_min |-> IF "x_min" \in missing THEN 0 ELSE xmin,
     x_max |-> IF "x_max" \in missing THEN 0 ELSE xmax,
     missing |-> missing]

\* 32.5..42.0 N, -124.4..-114.1 E, no label
CaliforniaRow == MkRow("California", NullLabel, 650, 840, -2488, -2282, {})
\* rows of a state whose box lacks one or more bounds, every pattern of nulls
TexasRows ==
    {MkRow("Texas", NullLabel, 516, 730, -2132, -1870, m) : m \in (SUBSET BoundNames) \ {{}}}

Table == {CaliforniaRow} \cup TexasRows

\* the state names the tool is invoked with
States == {"california", "TEXAS", "atlantis"}

\* case folding of the names in use
Fold(s) ==
    CASE s \in {"california", "California"} -> "california"
      [] s \in {"TEXAS", "Texas"} -> "texas"
      [] OTHER -> s

\* .ilike("STATE_NAME", state) with a pattern free of wildcards
ILike(name, pattern) == Fold(name) = Fold(pattern)

Matches(st) == {r \in Table : ILike(r.STATE_NAME, st)}

\* messages are sequences of text fragments
StoreErrors == {<<"connection refused">>, <<"statement timeout">>}

NoErr == [kind |-> "none", message |-> <<>>, id |-> 0]
QueryError(m) == [kind |-> "QueryError", message |-> m, id |-> 0]

\* what one query can answer: { data, error }
Answers(st) ==
    {[data |-> NullData, error |-> QueryError(m)] : m \in StoreErrors}
    \cup {[data |-> Arr(<<>>), error |-> NoErr], [data |-> NullData, error |-> NoErr]}
    \cup {[data |-> Arr(<<r>>), error |-> NoErr] : r \in Matches(st)}

----------------------------------------------------------------------------
(* The places provider *)

PlaceIds == {"a", "b"}
Places == {[place_id |-> p] : p \in PlaceIds}
NonOKStatuses == {"ZERO_RESULTS", "REQUEST_DENIED"}

Pending == [status |-> "pending", results |-> NullData]

\* (results, status) handed to the nearbySearch callback
ProviderResponses ==
    {[status |-> "OK", results |-> Arr(s)] : s \in SeqsUpTo(Places, MaxResults)}
    \cup {[status |-> "OK", results |-> NullData]}
    \cup {[status |-> s, results |-> NullData] : s \in NonOKStatuses}

----------------------------------------------------------------------------
(* The retry loop *)

\* variant: while (attempt < maxRetries - 1)
LoopConditionShort(a) == a < maxRetries - 1

\* while (attempt < maxRetries)
LoopCondition(a) == a < maxRetries

\* variant: if (!boundingBoxes)
IsNullOnly(bb) == bb.isNull

\* if (!boundingBoxes || boundingBoxes.length === 0)
IsEmpty(bb) == bb.isNull \/ Len(bb.rows) = 0

\* variant: new Error("No bounding boxes found")
NoDataErrorUnnamed(st) ==
    [kind |-> "NoData", message |-> <<"No bounding boxes found">>, id |-> 0]

\* new Error(`No bounding boxes found for state: ${state}`)
NoDataError(st) ==
    [kind |-> "NoData", message |-> <<"No bounding boxes found for state: ", st>>, id |-> 0]

\* the error the try block throws on this answer, NoErr when it reaches break
Caught(answer, st) ==
    IF answer.error # NoErr THEN answer.error
    ELSE IF IsEmpty(answer.data) THEN NoDataError(st)
    ELSE NoErr

\* variant: boundingBoxes ??= data, the first non-null data is kept
AssignedOnce(old, answer) ==
    IF answer.error # NoErr THEN old
    ELSE IF old.isNull THEN answer.data ELSE old

\* boundingBoxes = data, reached only when the query did not error
Assigned(old, answer) == IF answer.error # NoErr THEN old ELSE answer.data

\* variant: if (attempt > maxRetries)
ShouldRethrowLate(a) == a > maxRetries

\* if (attempt >= maxRetries) in the catch block
ShouldRethrow(a) == a >= maxRetries

\* variant: throw new Error(`Failed after ${maxRetries} attempts`)
RethrownWrapped(err) ==
    [kind |-> "Exhausted",
     message |-> <<"Failed after ", ToString(maxRetries), " attempts">>, id |-> err.id]

\* const error = err as Error; throw error
Rethrown(err) == err

\* console.error(`Failed after ${maxRetries} attempts: ${error.message}`)
FailureLog(err) == <<"Failed after ", ToString(maxRetries), " attempts: ">> \o err.message

\* new Error("Bounding boxes data is null")
NullDataError == [kind |-> "NullData", message |-> <<"Bounding boxes data is null">>, id |-> 0]

----------------------------------------------------------------------------
(* Quadrant subdivision *)

\* variant: a + b / 2
MidUnparenthesised(a, b) == a + (b \div 2)

\* (a + b) / 2; exact, the stored values being even
Mid(a, b) == (a + b) \div 2

\* variant: only the latitudes are tested
HasNullLatitude(box) == "y_min" \in box.missing \/ "y_max" \in box.missing

\* box.y_min === null || box.y_max === null || box.x_min === null || box.x_max === null
HasNullBound(box) ==
    \/ "y_min" \in box.missing
    \/ "y_max" \in box.missing
    \/ "x_min" \in box.missing
    \/ "x_max" \in box.missing

Quadrant(county, ymin, ymax, xmin, xmax) ==
    [COUNTY_NAME |-> county, y_min |-> ymin, y_max |-> ymax, x_min |-> xmin, x_max |-> xmax]

\* variant: the south-east and north-west quadrants in the other order
DivideBoxColumnMajor(box) ==
    IF HasNullBound(box) THEN <<>>
    ELSE LET y_mid == Mid(box.y_min, box.y_max)
             x_mid == Mid(box.x_min, box.x_max)
         IN  << Quadrant(box.COUNTY_NAME, box.y_min, y_mid, box.x_min, x_mid),
                Quadrant(box.COUNTY_NAME, y_mid, box.y_max, box.x_min, x_mid),
                Quadrant(box.COUNTY_NAME, box.y_min, y_mid, x_mid, box.x_max),
                Quadrant(box.COUNTY_NAME, y_mid, box.y_max, x_mid, box.x_max) >>

\* the flatMap callback
DivideBox(box) ==
    IF HasNullBound(box) THEN <<>>
    ELSE LET y_mid == Mid(box.y_min, box.y_max)
             x_mid == Mid(box.x_min, box.x_max)
         IN  << Quadrant(box.COUNTY_NAME, box.y_min, y_mid, box.x_min, x_mid),
                Quadrant(box.COUNTY_NAME, box.y_min, y_mid, x_mid, box.x_max),
                Quadrant(box.COUNTY_NAME, y_mid, box.y_max, box.x_min, x_mid),
                Quadrant(box.COUNTY_NAME, y_mid, box.y_max, x_mid, box.x_max) >>

\* boundingBoxes.flatMap(...)
RECURSIVE DivideAll(_)
DivideAll(boxes) ==
    IF boxes = <<>> THEN <<>> ELSE DivideBox(Head(boxes)) \o DivideAll(Tail(boxes))

----------------------------------------------------------------------------
(* Parallel region search *)

\* variant: LatLng(x, y), longitude first
SearchRequestLngLat(q) ==
    [sw |-> <<q.x_min, q.y_min>>, ne |-> <<q.x_max, q.y_max>>, type |-> "restaurant"]

\* { bounds: LatLngBounds(SW corner, NE corner), type: 'restaurant' }
SearchRequest(q) ==
    [sw |-> <<q.y_min, q.x_min>>, ne |-> <<q.y_max, q.x_max>>, type |-> "restaurant"]

\* variant: only the first place is kept
FirstPlaceIdOf(results) == IF results = <<>> THEN <<>> ELSE <<results[1].place_id>>

\* results.map(place => place.place_id)
PlaceIdsOf(results) == [i \in 1..Len(results) |-> results[i].place_id]

\* variant: the else branch logs and calls neither resolve nor reject
SettleOutcomeSilent(resp) ==
    IF resp.status = "OK" /\ ~resp.results.isNull
    THEN [outcome |-> "resolve", value |-> PlaceIdsOf(resp.results.rows)]
    ELSE [outcome |-> "none", value |-> <<>>]

\* variant: reject(status) in the else branch
SettleOutcomeReject(resp) ==
    IF resp.status = "OK" /\ ~resp.results.isNull
    THEN [outcome |-> "resolve", value |-> PlaceIdsOf(resp.results.rows)]
    ELSE [outcome |-> "reject", value |-> <<>>]

\* the nearbySearch callback: how the quadrant's promise settles
SettleOutcome(resp) ==
    IF resp.status = "OK" /\ ~resp.results.isNull
    THEN [outcome |-> "resolve", value |-> PlaceIdsOf(resp.results.rows)]
    ELSE [outcome |-> "resolve", value |-> <<>>]

Unsettled == [settled |-> FALSE, value |-> <<>>]

\* variant: Promise.race, fulfilled once one promise is
Raced(sr) == sr = <<>> \/ \E i \in 1..Len(sr) : sr[i].settled

\* Promise.all: fulfilled once every promise is
Joined(sr) == \A i \in 1..Len(sr) : sr[i].settled

RECURSIVE Dedup(_, _)
Dedup(s, seen) ==
    IF s = <<>> THEN <<>>
    ELSE IF Head(s) \in seen THEN Dedup(Tail(s), seen)
    ELSE <<Head(s)>> \o Dedup(Tail(s), seen \cup {Head(s)})

RECURSIVE Concat(_)
Concat(lists) == IF lists = <<>> THEN <<>> ELSE Head(lists) \o Concat(Tail(lists))

\* variant: [...new Set(searchResults.flat())]
FlatUnique(lists) == Dedup(Concat(lists), {})

\* searchResults.flat()
RECURSIVE Flat(_)
Flat(lists) == IF lists = <<>> THEN <<>> ELSE Head(lists) \o Flat(Tail(lists))

Values(sr) == [i \in 1..Len(sr) |-> sr[i].value]

----------------------------------------------------------------------------
(* The console *)

NoConsole == [on |-> FALSE, lines |-> EmptyBag]
EmptyConsole == [on |-> TRUE, lines |-> EmptyBag]

Write(c, line) == IF c.on THEN [c EXCEPT !.lines = @ (+) SetToBag({line})] ELSE c

\* how console.log prints the data of an answer
Render(data) ==
    IF data.isNull THEN <<"null">>
    ELSE IF data.rows = <<>> THEN <<"[]">>
    ELSE <<"[", data.rows[1].STATE_NAME, "]">>

\* console.log(`Attempt ${attempt}: Querying bounding boxes for state: ${state}`)
QueryingLine(a, st) ==
    [level |-> "log",
     text |-> <<"Attempt ", ToString(a), ": Querying bounding boxes for state: ", st>>]

\* console.log(`Attempt ${attempt}: Query result:`, boundingBoxes)
ResultLine(a, data) ==
    [level |-> "log", text |-> <<"Attempt ", ToString(a), ": Query result:">> \o Render(data)]

\* console.warn(`Attempt ${attempt}: No bounding boxes found for state: ${state}`)
NoDataLine(a, st) ==
    [level |-> "warn",
     text |-> <<"Attempt ", ToString(a), ": No bounding boxes found for state: ", st>>]

\* console.error(`Failed after ${maxRetries} attempts: ${error.message}`)
FailureLine(err) == [level |-> "error", text |-> FailureLog(err)]

\* console.error(`Error searching for places: ${status}`)
SearchErrorLine(status) ==
    [level |-> "error", text |-> <<"Error searching for places: ", status>>]

\* the lines the try block writes once the query has answered
TryLines(c, a, st, answer) ==
    IF answer.error # NoErr THEN c
    ELSE IF IsEmpty(answer.data)
    THEN Write(Write(c, ResultLine(a, answer.data)), NoDataLine(a, st))
    ELSE Write(c, ResultLine(a, answer.data))

----------------------------------------------------------------------------
(* The tool *)

Init ==
    /\ pc = "idle"
    /\ state = "california"
    /\ attempt = 0
    /\ boundingBoxes = NullData
    /\ queries = 0
    /\ failedAttempts = 0
    /\ lastAnswer = [data |-> NullData, error |-> NoErr]
    /\ thrown = NoErr
    /\ logged = <<>>
    /\ dividedBoundingBoxes = <<>>
    /\ requests = <<>>
    /\ responses = <<>>
    /\ searchResults = <<>>
    /\ result = <<>>
    /\ loopExit = "none"
    /\ console = NoConsole
    /\ apc = "idle"
    /\ produced = <<>>
    /\ updates = <<>>
    /\ doneCalls = 0

\* The tool is called: the locals are initialised, the loop is entered and the
\* first query is sent.
Invoke(st) ==
    /\ pc \in {"idle", "returned", "failed"}
    /\ LoopCondition(0)
    /\ pc' = "awaitQuery"
    /\ state' = st
    /\ attempt' = 1
    /\ boundingBoxes' = NullData
    /\ queries' = 1
    /\ failedAttempts' = 0
    /\ lastAnswer' = [data |-> NullData, error |-> NoErr]
    /\ thrown' = NoErr
    /\ logged' = <<>>
    /\ dividedBoundingBoxes' = <<>>
    /\ requests' = <<>>
    /\ responses' = <<>>
    /\ searchResults' = <<>>
    /\ result' = <<>>
    /\ loopExit' = "none"
    /\ console' = Write([console EXCEPT !.lines = EmptyBag], QueryingLine(1, st))
    /\ UNCHANGED agentVars

\* The tool throws err.
Fail(err, bb, log) ==
    /\ pc' = "failed"
    /\ thrown' = err
    /\ logged' = log
    /\ boundingBoxes' = bb
    /\ UNCHANGED <<attempt, queries, dividedBoundingBoxes, requests, responses,
                   searchResults, result>>

\* The code after the loop, up to await Promise.all: the null check, the
\* subdivision, and one search request per quadrant.
AfterLoop(bb) ==
    IF bb.isNull
    THEN Fail(NullDataError, bb, <<>>)
    ELSE LET quads == DivideAll(bb.rows)
         IN  /\ pc' = "awaitSearches"
             /\ boundingBoxes' = bb
             /\ dividedBoundingBoxes' = quads
             /\ requests' = [i \in 1..Len(quads) |-> SearchRequest(quads[i])]
             /\ responses' = [i \in 1..Len(quads) |-> Pending]
             /\ searchResults' = [i \in 1..Len(quads) |-> Unsettled]
             /\ UNCHANGED <<attempt, queries, thrown, logged, result>>

\* The awaited query answers: the rest of the try block, the catch block, and
\* either the next attempt's query or the code after the loop.
QueryAnswer(answer) ==
    /\ pc = "awaitQuery"
    /\ answer \in Answers(state)
    /\ lastAnswer' = answer
    /\ UNCHANGED <<state, agentVars>>
    /\ LET err == [Caught(answer, state) EXCEPT !.id = attempt]
           bb == Assigned(boundingBoxes, answer)
           tried == TryLines(console, attempt, state, answer)
       IN  IF Caught(answer, state) = NoErr
           THEN /\ failedAttempts' = failedAttempts
                /\ loopExit' = "break"
                /\ console' = tried
                /\ AfterLoop(bb)
           ELSE /\ failedAttempts' = failedAttempts + 1
                /\ IF ShouldRethrow(attempt)
                   THEN /\ loopExit' = "throw"
                        /\ console' = Write(tried, FailureLine(err))
                        /\ Fail(Rethrown(err), bb, FailureLog(err))
                   ELSE IF LoopCondition(attempt)
                   THEN /\ pc' = "awaitQuery"
                        /\ attempt' = attempt + 1
                        /\ queries' = queries + 1
                        /\ boundingBoxes' = bb
                        /\ console' = Write(tried, QueryingLine(attempt + 1, state))
                        /\ UNCHANGED <<thrown, logged, dividedBoundingBoxes, requests,
                                       responses, searchResults, result, loopExit>>
                   ELSE /\ loopExit' = "condition"
                        /\ console' = tried
                        /\ AfterLoop(bb)

\* The provider calls back for quadrant i.
NearbySearchCallback(i, resp) ==
    /\ pc = "awaitSearches"
    /\ i \in 1..Len(searchResults)
    /\ responses[i] = Pending
    /\ resp \in ProviderResponses
    /\ responses' = [responses EXCEPT ![i] = resp]
    /\ console' = IF resp.status = "OK" /\ ~resp.results.isNull
                  THEN console ELSE Write(console, SearchErrorLine(resp.status))
    /\ LET s == SettleOutcome(resp)
       IN  IF s.outcome = "resolve"
           THEN /\ searchResults' = [searchResults EXCEPT ![i] = [settled |-> TRUE, value |-> s.value]]
                /\ UNCHANGED <<pc, thrown>>
           ELSE IF s.outcome = "reject"
           THEN \* a rejected promise rejects Promise.all, and the tool throws
                /\ searchResults' = searchResults
                /\ pc' = "failed"
                /\ thrown' = [kind |-> "SearchError", message |-> <<resp.status>>, id |-> 0]
           ELSE \* neither resolve nor reject is called: the promise stays pending
                UNCHANGED <<searchResults, pc, thrown>>
    /\ UNCHANGED <<state, attempt, boundingBoxes, queries, failedAttempts, lastAnswer,
                   logged, dividedBoundingBoxes, requests, result, loopExit, agentVars>>

\* Promise.all is fulfilled: return searchResults.flat()
Return ==
    /\ pc = "awaitSearches"
    /\ Joined(searchResults)
    /\ pc' = "returned"
    /\ result' = Flat(Values(searchResults))
    /\ UNCHANGED <<state, attempt, boundingBoxes, queries, failedAttempts, lastAnswer,
                   thrown, logged, dividedBoundingBoxes, requests, responses,
                   searchResults, loopExit, console, agentVars>>

Next ==
    \/ \E st \in States : Invoke(st)
    \/ \E answer \in Answers(state) : QueryAnswer(answer)
    \/ \E i \in 1..4, resp \in ProviderResponses : NearbySearchCallback(i, resp)
    \/ Return

Spec == Init /\ [][Next]_vars

\* Termination depends on whether a search answers, not on how many places it
\* returns: the fair specification draws the answers with at most one place.
ShortResponses ==
    {r \in ProviderResponses : r.results.isNull \/ Len(r.results.rows) <= 1}

NextFair ==
    \/ \E st \in States : Invoke(st)
    \/ \E answer \in Answers(state) : QueryAnswer(answer)
    \/ \E i \in 1..4, resp \in ShortResponses : NearbySearchCallback(i, resp)
    \/ Return

\* Every awaited query answers, every search request calls back, and the
\* continuation of a fulfilled Promise.all is run.
FairSpec ==
    /\ Init
    /\ [][NextFair]_vars
    /\ WF_vars(\E answer \in Answers(state) : QueryAnswer(answer))
    /\ WF_vars(\E i \in 1..4, resp \in ShortResponses : NearbySearchCallback(i, resp))
    /\ WF_vars(Return)

\* the same tool with a console attached
InitLog ==
    /\ pc = "idle"
    /\ state = "california"
    /\ attempt = 0
    /\ boundingBoxes = NullData
    /\ queries = 0
    /\ failedAttempts = 0
    /\ lastAnswer = [data |-> NullData, error |-> NoErr]
    /\ thrown = NoErr
    /\ logged = <<>>
    /\ dividedBoundingBoxes = <<>>
    /\ requests = <<>>
    /\ responses = <<>>
    /\ searchResults = <<>>
    /\ result = <<>>
    /\ loopExit = "none"
    /\ console = EmptyConsole
    /\ apc = "idle"
    /\ produced = <<>>
    /\ updates = <<>>
    /\ doneCalls = 0

SpecLog == InitLog /\ [][Next]_vars

----------------------------------------------------------------------------
(* Subdivision alone, over every box of the coordinate range *)

Coord == {2 * k : k \in -MaxCoord..MaxCoord}
Labels == {NullLabel, "Kern"}

Boxes ==
    {MkRow("Anywhere", c, y1, y2, x1, x2, m) :
        c \in Labels, y1 \in Coord, y2 \in Coord, x1 \in Coord, x2 \in Coord,
        m \in SUBSET BoundNames}

InitDivide ==
    /\ pc = "divide"
    /\ state = "anywhere"
    /\ attempt = 1
    /\ \E box \in Boxes : boundingBoxes = Arr(<<box>>)
    /\ queries = 1
    /\ failedAttempts = 0
    /\ lastAnswer = [data |-> boundingBoxes, error |-> NoErr]
    /\ thrown = NoErr
    /\ logged = <<>>
    /\ dividedBoundingBoxes = <<>>
    /\ requests = <<>>
    /\ responses = <<>>
    /\ searchResults = <<>>
    /\ result = <<>>
    /\ loopExit = "break"
    /\ console = NoConsole
    /\ apc = "idle"
    /\ produced = <<>>
    /\ updates = <<>>
    /\ doneCalls = 0

\* the flatMap is applied to the rows, the first time and any time again
ApplyDivide ==
    /\ pc \in {"divide", "divided"}
    /\ pc' = "divided"
    /\ dividedBoundingBoxes' = DivideAll(boundingBoxes.rows)
    /\ UNCHANGED <<state, attempt, boundingBoxes, queries, failedAttempts, lastAnswer,
                   thrown, logged, requests, responses, searchResults, result,
                   loopExit, console, agentVars>>

NextDivide == ApplyDivide

SpecDivide == InitDivide /\ [][NextDivide]_vars

----------------------------------------------------------------------------
(* runAgent *)

Undefined == "undefined"

\* the items of agentExecutor.streamEvents: an event name and its data
AgentEvents ==
    {[event |-> e, data |-> d] :
        e \in {"on_tool_start", "on_tool_end"}, d \in {"california", Undefined}}

\* JSON.parse(JSON.stringify(item, null, 2)): a property whose value is
\* undefined is left out
JsonClone(item) == IF item.data = Undefined THEN [event |-> item.event] ELSE item

\* variant: the update is put in front of the earlier ones
StreamUpdateFirst(ups, item) == <<JsonClone(item)>> \o ups

\* stream.update(JSON.parse(JSON.stringify(item, null, 2)))
StreamUpdate(ups, item) == Append(ups, JsonClone(item))

\* runAgent is called: the stream is created, the detached task runs up to
\* await pull(...), and { streamData } is returned.
RunAgent ==
    /\ apc = "idle"
    /\ apc' = "pulling"
    /\ produced' = <<>>
    /\ updates' = <<>>
    /\ doneCalls' = 0
    /\ UNCHANGED toolVars

\* pull settles: on success the executor is built and the for await loop waits
\* for the first event; on failure the task's promise is rejected, unhandled.
PullSettles(ok) ==
    /\ apc = "pulling"
    /\ apc' = IF ok THEN "iterating" ELSE "rejected"
    /\ UNCHANGED <<produced, updates, doneCalls, toolVars>>

\* the executor yields an event: the loop body forwards it
EventYielded(item) ==
    /\ apc = "iterating"
    /\ Len(produced) < MaxEvents
    /\ item \in AgentEvents
    /\ produced' = Append(produced, item)
    /\ updates' = StreamUpdate(updates, item)
    /\ UNCHANGED <<apc, doneCalls, toolVars>>

\* the event stream ends: stream.done()
EventsEnd ==
    /\ apc = "iterating"
    /\ apc' = "finished"
    /\ doneCalls' = doneCalls + 1
    /\ UNCHANGED <<produced, updates, toolVars>>

\* the event stream throws (a tool call or the model call failed): the for
\* await loop throws out of the task, whose promise is rejected, unhandled.
EventsThrow ==
    /\ apc = "iterating"
    /\ apc' = "rejected"
    /\ UNCHANGED <<produced, updates, doneCalls, toolVars>>

NextAgent ==
    \/ RunAgent
    \/ \E ok \in BOOLEAN : PullSettles(ok)
    \/ \E item \in AgentEvents : EventYielded(item)
    \/ EventsEnd
    \/ EventsThrow

SpecAgent == Init /\ [][NextAgent]_vars

----------------------------------------------------------------------------
(* Properties of the lookup *)

\* the answer is a success: no error and at least one row
AnswerOK(a) == a.error.kind = "none" /\ ~a.data.isNull /\ Len(a.data.rows) >= 1

Looked == pc \in {"awaitSearches", "returned"}

\* C1: an invocation issues at most 3 store queries, one per attempt; when all
\* three attempts have failed the tool has failed, after exactly 3 queries, and
\* no 4th query is issued.
C1_AtMostThreeQueries ==
    /\ queries <= 3
    /\ (pc = "awaitQuery" => queries = failedAttempts + 1 /\ attempt = queries)
    /\ (failedAttempts = 3 => pc = "failed")
    /\ (pc = "failed" => queries = 3 /\ failedAttempts = 3)

C1_Witness == pc = "failed" /\ queries = 3 /\ failedAttempts = 3

\* C2: when the first successful answer is that of attempt k, the lookup has
\* made exactly k queries (k - 1 failed ones and the successful one), makes no
\* query afterwards, and the rows handed to subdivision are those of attempt k.
C2_FirstSuccessEndsLookup ==
    Looked =>
        /\ AnswerOK(lastAnswer)
        /\ queries = failedAttempts + 1
        /\ attempt = queries
        /\ queries \in 1..3
        /\ boundingBoxes = lastAnswer.data

C2_Witness ==
    /\ pc = "awaitSearches"
    /\ failedAttempts = 2
    /\ queries = 3
    /\ boundingBoxes = Arr(<<CaliforniaRow>>)

AllSearchesFailed ==
    \A i \in 1..Len(responses) :
        \/ responses[i].status # "OK"
        \/ responses[i].results.isNull
        \/ responses[i].results.rows = <<>>

C4_LastErrorSurfaced ==
    pc = "failed" =>
        /\ thrown.id = 3
        /\ (lastAnswer.error.kind = "QueryError" =>
                thrown.kind = "QueryError" /\ thrown.message = lastAnswer.error.message)
        /\ (lastAnswer.error.kind = "none" => thrown.kind = "NoData")

C4_Witness ==
    pc = "failed" /\ thrown.kind = "QueryError" /\ thrown.id = 3 /\ failedAttempts = 3

\* the message carries the text t
Names(message, t) == t \in Range(message)

\* C5, as stated: the message of the error thrown on exhaustion names the
\* requested state and the attempt count, for a query error and for zero rows.
C5_ThrownNamesStateAndCount ==
    pc = "failed" => Names(thrown.message, state) /\ Names(thrown.message, "3")

\* C5, amended: on exhaustion the logged diagnostic names the attempt count and
\* ends with the thrown error's message; the thrown message names the requested
\* state when the last attempt returned no rows, and is the store's own message
\* when the last attempt was a query error.
C5_LogNamesCount ==
    pc = "failed" =>
        /\ Names(logged, "3")
        /\ Len(logged) >= Len(thrown.message)
        /\ SubSeq(logged, Len(logged) - Len(thrown.message) + 1, Len(logged)) = thrown.message
        /\ (thrown.kind = "NoData" =>
                Names(thrown.message, state) /\ Names(logged, state))
        /\ (thrown.kind = "QueryError" => thrown.message \in StoreErrors)

C5_Witness ==
    pc = "failed" /\ thrown.kind = "NoData" /\ state = "atlantis" /\ Names(logged, "3")

----------------------------------------------------------------------------
(* Properties of the search and of the aggregation *)

\* the provider answered quadrant i with a list of places
Answered(r) == r.status = "OK" /\ ~r.results.isNull

\* the place ids the provider returned for a quadrant, in its order
ReturnedIds(r) ==
    IF Answered(r) THEN [j \in 1..Len(r.results.rows) |-> r.results.rows[j].place_id]
    ELSE <<>>

\* C6: a quadrant whose search reports a non-OK status or no results
\* contributes the empty list and nothing else changes: every settled quadrant
\* holds exactly what its own search returned, the ids of every succeeding
\* quadrant are in the output, and no search outcome makes the tool fail.
C6_FailedQuadrantContributesNothing ==
    /\ \A i \in 1..Len(searchResults) :
          IF searchResults[i].settled
          THEN /\ responses[i] # Pending
               /\ (~Answered(responses[i]) => searchResults[i].value = <<>>)
               /\ (Answered(responses[i]) => searchResults[i].value = ReturnedIds(responses[i]))
          ELSE responses[i] = Pending
    /\ (pc = "returned" =>
          \A i \in 1..Len(responses) : Range(ReturnedIds(responses[i])) \subseteq Range(result))
    /\ (pc = "failed" => requests = <<>>)

\* results [a,b], failure, [b], empty
C6_Witness ==
    /\ pc = "returned"
    /\ Len(responses) = 4
    /\ ReturnedIds(responses[1]) = <<"a", "b">>
    /\ responses[2].status = "REQUEST_DENIED"
    /\ ReturnedIds(responses[3]) = <<"b">>
    /\ responses[4] = [status |-> "OK", results |-> Arr(<<>>)]
    /\ result = <<"a", "b", "b">>

\* number of ids returned for the quadrants before quadrant i
RECURSIVE Offset(_)
Offset(i) == IF i = 1 THEN 0 ELSE Offset(i - 1) + Len(ReturnedIds(responses[i - 1]))

\* C7: the output is the per-quadrant lists one after the other in quadrant
\* order, each in the provider's order, whatever the order of completion, and
\* nothing is removed: its length is the sum of the lists' lengths.
C7_OutputIsConcatenation ==
    pc = "returned" =>
        /\ Len(result) = Offset(Len(responses) + 1)
        /\ \A i \in 1..Len(responses) :
              \A j \in 1..Len(ReturnedIds(responses[i])) :
                  result[Offset(i) + j] = ReturnedIds(responses[i])[j]

\* the same two ids for two quadrants, in opposite orders
C7_Witness ==
    /\ pc = "returned"
    /\ Len(responses) = 4
    /\ ReturnedIds(responses[1]) = <<"b", "a">>
    /\ ReturnedIds(responses[2]) = <<>>
    /\ ReturnedIds(responses[3]) = <<"a", "b">>
    /\ ReturnedIds(responses[4]) = <<"a">>
    /\ result = <<"b", "a", "a", "b", "a">>

\* C8: the tool has returned only when every issued search has settled, and
\* no place id is handed to the caller before that.
C8_ReturnsAfterAllSettled ==
    /\ (pc = "returned" =>
          /\ Len(searchResults) = Len(requests)
          /\ \A i \in 1..Len(requests) : searchResults[i].settled /\ responses[i] # Pending)
    /\ (pc # "returned" => result = <<>>)

C8_Witness ==
    /\ pc = "returned"
    /\ Len(requests) = 4
    /\ \A i \in 1..4 : searchResults[i].settled
    /\ result # <<>>

----------------------------------------------------------------------------
(* Properties of the subdivision *)

Min(S) == CHOOSE x \in S : \A y \in S : x <= y
Max(S) == CHOOSE x \in S : \A y \in S : x >= y

ValidExtent(b) == b.y_min <= b.y_max /\ b.x_min <= b.x_max
Area(b) == (b.y_max - b.y_min) * (b.x_max - b.x_min)
Covers(b, y, x) == b.y_min <= y /\ y <= b.y_max /\ b.x_min <= x /\ x <= b.x_max

\* area of the intersection of two boxes
Overlap(a, b) ==
    LET h == Min({a.y_max, b.y_max}) - Max({a.y_min, b.y_min})
        w == Min({a.x_max, b.x_max}) - Max({a.x_min, b.x_min})
    IN  IF h > 0 /\ w > 0 THEN h * w ELSE 0

TheBox == boundingBoxes.rows[1]

\* C9: a box with its four bounds present and min <= max on both axes is
\* divided into exactly 4 valid boxes, split at the midpoints of both axes,
\* which together cover exactly the box and overlap pairwise in zero area.
C9_FourQuadrantsPartition ==
    (pc = "divided" /\ TheBox.missing = {} /\ ValidExtent(TheBox)) =>
        LET q == dividedBoundingBoxes
            B == TheBox
        IN  /\ Len(q) = 4
            /\ \A i \in 1..4 : ValidExtent(q[i])
            /\ \A i \in 1..4 :
                  /\ q[i].y_min = B.y_min \/ 2 * q[i].y_min = B.y_min + B.y_max
                  /\ q[i].y_max = B.y_max \/ 2 * q[i].y_max = B.y_min + B.y_max
                  /\ q[i].x_min = B.x_min \/ 2 * q[i].x_min = B.x_min + B.x_max
                  /\ q[i].x_max = B.x_max \/ 2 * q[i].x_max = B.x_min + B.x_max
            /\ Min({q[i].y_min : i \in 1..4}) = B.y_min
            /\ Max({q[i].y_max : i \in 1..4}) = B.y_max
            /\ Min({q[i].x_min : i \in 1..4}) = B.x_min
            /\ Max({q[i].x_max : i \in 1..4}) = B.x_max
            /\ \A y \in B.y_min..B.y_max, x \in B.x_min..B.x_max :
                  \E i \in 1..4 : Covers(q[i], y, x)
            /\ Area(q[1]) + Area(q[2]) + Area(q[3]) + Area(q[4]) = Area(B)
            /\ \A i \in 1..4, j \in 1..4 : i # j => Overlap(q[i], q[j]) = 0

\* a box of positive area whose midpoint falls between two stored values
C9_Witness ==
    /\ pc = "divided"
    /\ TheBox.missing = {}
    /\ TheBox.y_min = -4 /\ TheBox.y_max = 2 /\ TheBox.x_min = 0 /\ TheBox.x_max = 4
    /\ Len(dividedBoundingBoxes) = 4
    /\ dividedBoundingBoxes[1].y_max = -1

----------------------------------------------------------------------------
(* Properties of the fan-out, the log, the order of the stages *)

\* C11: one search request per quadrant and no other, 4 for a box with all its
\* bounds, each bounded by its quadrant's south-west and north-east corners
\* and of type "restaurant"; the 4 are issued together, before any is awaited,
\* and none is issued again whatever the searches answer.
C11_OneRequestPerQuadrant ==
    /\ Len(requests) = Len(dividedBoundingBoxes)
    /\ Len(responses) = Len(requests)
    /\ Len(searchResults) = Len(requests)
    /\ \A i \in 1..Len(requests) :
          /\ requests[i].sw = <<dividedBoundingBoxes[i].y_min, dividedBoundingBoxes[i].x_min>>
          /\ requests[i].ne = <<dividedBoundingBoxes[i].y_max, dividedBoundingBoxes[i].x_max>>
          /\ requests[i].type = "restaurant"
    /\ (Looked /\ Len(boundingBoxes.rows) = 1 /\ TheBox.missing = {}) =>
          /\ Len(requests) = 4
          /\ (TheBox.y_min < TheBox.y_max /\ TheBox.x_min < TheBox.x_max =>
                \A i \in 1..4, j \in 1..4 : i # j => requests[i] # requests[j])

\* the four requests of the California box, all outstanding
C11_Witness ==
    /\ pc = "awaitSearches"
    /\ Len(requests) = 4
    /\ \A i \in 1..4 : responses[i] = Pending /\ ~searchResults[i].settled
    /\ requests[1] = [sw |-> <<650, -2488>>, ne |-> <<745, -2385>>, type |-> "restaurant"]
    /\ requests[4] = [sw |-> <<745, -2385>>, ne |-> <<840, -2282>>, type |-> "restaurant"]

\* the attempt whose answer is lastAnswer
AnsweredAttempt == IF AnswerOK(lastAnswer) THEN attempt ELSE failedAttempts

SomeAttemptAnswered == Looked \/ failedAttempts >= 1

\* the line records the outcome of the answer: a row, zero rows, or an error
RecordsOutcome(line, a) ==
    IF a.error.kind # "none"
    THEN line.level = "error" \/ \E m \in Range(a.error.message) : m \in Range(line.text)
    ELSE IF AnswerOK(a)
    THEN ": Query result:" \in Range(line.text) /\ "[" \in Range(line.text)
    ELSE line.level = "warn" \/ "[]" \in Range(line.text) \/ "null" \in Range(line.text)

\* C12: every attempt that has been answered has a line in the log that
\* carries its number and records its outcome.
C12_EveryAttemptLogged ==
    (console.on /\ SomeAttemptAnswered) =>
        \E line \in BagToSet(console.lines) :
            /\ ToString(AnsweredAttempt) \in Range(line.text)
            /\ RecordsOutcome(line, lastAnswer)

\* C13: a box with its four bounds is divided into [south-west, south-east,
\* north-west, north-east] about its midpoint, each with the box's label, and
\* dividing it again gives the same sequence.
C13_Order ==
    (pc = "divided" /\ TheBox.missing = {}) =>
        LET q == dividedBoundingBoxes
            B == TheBox
        IN  /\ Len(q) = 4
            /\ \A i \in 1..4 : q[i].COUNTY_NAME = B.COUNTY_NAME
            /\ q[1].y_min = B.y_min /\ 2 * q[1].y_max = B.y_min + B.y_max
            /\ q[1].x_min = B.x_min /\ 2 * q[1].x_max = B.x_min + B.x_max
            /\ q[2].y_min = B.y_min /\ 2 * q[2].y_max = B.y_min + B.y_max
            /\ 2 * q[2].x_min = B.x_min + B.x_max /\ q[2].x_max = B.x_max
            /\ 2 * q[3].y_min = B.y_min + B.y_max /\ q[3].y_max = B.y_max
            /\ q[3].x_min = B.x_min /\ 2 * q[3].x_max = B.x_min + B.x_max
            /\ 2 * q[4].y_min = B.y_min + B.y_max /\ q[4].y_max = B.y_max
            /\ 2 * q[4].x_min = B.x_min + B.x_max /\ q[4].x_max = B.x_max

C13_DeterministicQuadrants ==
    /\ []C13_Order
    /\ [][pc = "divided" => dividedBoundingBoxes' = dividedBoundingBoxes]_vars

C13_Witness ==
    /\ pc = "divided"
    /\ TheBox = MkRow("Anywhere", "Kern", -4, 2, 0, 4, {})
    /\ dividedBoundingBoxes[2] = Quadrant("Kern", -4, -1, 2, 4)
    /\ dividedBoundingBoxes[3] = Quadrant("Kern", -1, 2, 0, 2)

\* C14: the loop is left by break, with at least one row, or by rethrowing the
\* error of the third attempt; never because attempt < 3 became false, and the
\* tool never throws "Bounding boxes data is null".
C14_NullCheckUnreachable ==
    /\ thrown.kind # "NullData"
    /\ loopExit # "condition"
    /\ (loopExit = "break" => Looked /\ ~boundingBoxes.isNull /\ Len(boundingBoxes.rows) >= 1)
    /\ (loopExit = "throw" => pc = "failed" /\ attempt = 3 /\ thrown.id = 3)
    /\ (pc \in {"awaitSearches", "returned", "failed"} => loopExit \in {"break", "throw"})

\* three query errors: boundingBoxes is still null, and the failure is the rethrow
C14_Witness ==
    /\ pc = "failed"
    /\ loopExit = "throw"
    /\ boundingBoxes.isNull
    /\ thrown.kind = "QueryError"

\* C15: a search request exists only after a successful lookup, no query is
\* pending or issued once requests exist, and an exhausted lookup leaves no
\* search request.
C15_StagesOrdered ==
    /\ (Looked => AnswerOK(lastAnswer))
    /\ (requests # <<>> => Looked /\ queries = failedAttempts + 1)
    /\ (pc = "awaitQuery" => requests = <<>> /\ responses = <<>> /\ searchResults = <<>>)
    /\ (failedAttempts = 3 \/ pc = "failed" => requests = <<>>)

C15_Witness ==
    /\ pc = "returned"
    /\ Len(requests) = 4
    /\ failedAttempts = 2
    /\ queries = 3

\* C16: when every query answers and every search calls back, an invocation
\* that is waiting ends, returned or failed; between two queries of the retry
\* loop the attempt counter grows by one and stays within 3.
C16_Terminates ==
    /\ (pc \in {"awaitQuery", "awaitSearches"}) ~> (pc \in {"returned", "failed"})
    /\ [][pc = "awaitQuery" /\ pc' = "awaitQuery" =>
            attempt' = attempt + 1 /\ attempt' <= 3]_vars

\* an invocation that went through three queries and four searches has returned
C16_Witness ==
    /\ pc = "returned"
    /\ queries = 3
    /\ Len(requests) = 4

----------------------------------------------------------------------------
(* Properties of runAgent *)

\* the update is the event as JSON carries it
Forwards(update, item) ==
    /\ update.event = item.event
    /\ IF item.data = Undefined THEN DOMAIN update = {"event"}
       ELSE DOMAIN update = {"event", "data"} /\ update.data = item.data

C17_InOrder ==
    /\ Len(updates) = Len(produced)
    /\ \A i \in 1..Len(produced) : Forwards(updates[i], produced[i])
    /\ doneCalls <= 1
    /\ (doneCalls = 1 <=> apc = "finished")

\* C17: the stream holds one update per event of the executor, in the order
\* the executor yields them; earlier updates are never changed; done is called
\* once, after the last event has been forwarded, and no update follows it.
C17_ForwardsInOrderThenDone ==
    /\ []C17_InOrder
    /\ [][/\ Len(updates') >= Len(updates)
          /\ SubSeq(updates', 1, Len(updates)) = updates
          /\ (doneCalls' > doneCalls => updates' = updates /\ produced' = produced)
          /\ (doneCalls >= 1 => updates' = updates /\ doneCalls' = doneCalls)]_vars

C17_Witness ==
    /\ apc = "finished"
    /\ doneCalls = 1
    /\ Len(updates) = 3
    /\ updates[1] = [event |-> "on_tool_start", data |-> "california"]
    /\ updates[2] = [event |-> "on_tool_end"]
    /\ produced[2] = [event |-> "on_tool_end", data |-> Undefined]

\* C18: once the detached task of runAgent has stopped, by finishing or by a
\* failure of pull or of the event stream, the stream has been closed.
C18_StreamClosedWhenTaskStops ==
    apc \in {"finished", "rejected"} => doneCalls >= 1

====
